---- MODULE Spec2Model ----
(***************************************************************************)
(* A model of miniPDF: the page-range parser, the extract/merge            *)
(* primitives, the text-content heuristic, the per-file analysis batch,    *)
(* the size-targeting compression loop of the combine handler and the      *)
(* split-point search.                                                     *)
(*                                                                         *)
(* A page spec is a Python str, modelled as a sequence of one-character    *)
(* strings; a PDF byte buffer is modelled by what PdfReader reads from it: *)
(* its sequence of pages, or the fact that it cannot be read.              *)
(***************************************************************************)
EXTENDS Integers, Sequences, FiniteSets, TLC

VARIABLES
    \* parse_page_range(range_str, max_pages)
    range_str,      \* the page spec, a sequence of characters
    max_pages,      \* the page count handed to the parser
    parse_pc,       \* "idle" | "call" | "done"
    parse_out,      \* what the call returned or raised
    \* extract_pages and merge_pdfs
    src_doc,        \* the PDF pages are extracted from
    selections,     \* the page lists extract_pages was called with, in order
    pieces,         \* what each of these calls returned or raised
    merged,         \* what merge_pdfs returned for the extracted PDFs
    doc_pc,         \* "idle" | "extract" | "pieces" | "done"
    \* detect_text_content
    text_doc,       \* the PDF analysed
    text_out,       \* (has_significant_text, text_ratio) and the warning
    text_pc,        \* "idle" | "call" | "done"
    \* analyze_pdfs_for_compression
    file_data,      \* the batch: one record per uploaded file
    analysis,       \* analysis_results and the errors shown with st.error
    an_pc,          \* "idle" | "call" | "done"
    \* the "Combinar y Comprimir PDF" handler of main(), from the size check on
    combined_pdf,         \* merge_pdfs(extracted_pdfs)
    raster_profile,       \* how the combined PDF responds to rasterization
    combined_size,        \* get_file_size(combined_pdf)
    combined_has_text,    \* detect_text_content(combined_pdf)[0]
    max_size_mb,          \* the size limit of the sidebar
    preserve_text,        \* the checkbox of the sidebar
    dpi,                  \* the initial resolution
    quality,              \* the initial JPEG quality
    main_pc,    \* "idle" | "stopped" | "combined" | "text_tried" | "loop" | "done"
    attempt,              \* the loop variable of `for attempt in range(10)`
    current_dpi,
    current_quality,
    compression_data,     \* the attempt trail
    compressed_pdf_bytes, \* what the last pdf_to_compressed_pdf call returned
    final_pdf,
    final_size,
    text_preserved,
    shown,                \* the messages and metrics put on the page
    download,             \* the PDF behind the download button
    raster_calls,         \* how often pdf_to_compressed_pdf was called
    \* find_split_point(pdf_bytes, max_size_mb)
    split_pdf,            \* the PDF to split
    split_limit,          \* the size limit handed to the call
    low,
    high,
    split_pc,             \* "idle" | "call" | "search" | "done"
    split_out,            \* what the call returned or raised
    extract_calls,        \* how often the call has called extract_pages
    \* pdf_to_compressed_pdf(input_pdf_bytes, dpi, quality)
    input_pages,          \* how many pages the input PDF renders to
    fault,                \* the step of this call that fails, if any
    temp_dir,             \* the temporary files that exist on disk
    images,               \* the page images convert_from_path returned
    temp_images,          \* the names of the JPEG files saved so far
    raster_pc,            \* "idle" | "call" | "save" | "done"
    raster_out            \* "unset" | "pdf_bytes" | "None"

parseVars == <<range_str, max_pages, parse_pc, parse_out>>
docVars == <<src_doc, selections, pieces, merged, doc_pc>>
textVars == <<text_doc, text_out, text_pc>>
anVars == <<file_data, analysis, an_pc>>

mainInputs ==
    <<combined_pdf, raster_profile, combined_size, combined_has_text,
      max_size_mb, preserve_text, dpi, quality>>
loopVars ==
    <<attempt, current_dpi, current_quality, compression_data,
      compressed_pdf_bytes, raster_calls>>
resultVars == <<final_pdf, final_size, text_preserved, shown, download>>
mainVars == <<mainInputs, main_pc, loopVars, resultVars>>

splitVars ==
    <<split_pdf, split_limit, low, high, split_pc, split_out, extract_calls>>

rasterVars ==
    <<input_pages, fault, temp_dir, images, temp_images, raster_pc, raster_out>>

vars ==
    <<parseVars, docVars, textVars, anVars, mainVars, splitVars, rasterVars>>

----------------------------------------------------------------------------
(* Bounds of the model. *)

\* longest page spec enumerated exhaustively
MaxLen == 3
\* most pages of a PDF handed to pdf_to_compressed_pdf
MaxRasterPages == 4
\* largest page count handed to the parser with an enumerated spec
MaxPages == 2
\* most pages of a PDF handed to extract_pages
MaxDocPages == 3
\* longest page list handed to extract_pages
MaxSel == 3
\* most extracted PDFs handed to merge_pdfs
MaxPieces == 2
\* most pages of a PDF handed to detect_text_content
MaxTextPages == 4
\* most files in a batch handed to analyze_pdfs_for_compression
MaxFiles == 3
\* largest size, in MB, of a combined or compressed PDF, and largest limit
MaxSizeMB == 2
\* most pages of a PDF handed to find_split_point
MaxSplitPages == 4

----------------------------------------------------------------------------
(* Python built-ins used by the parser. *)

Min(a, b) == IF a <= b THEN a ELSE b

Digits == {"0", "1", "2", "3", "4", "5", "6", "7", "8", "9"}

DigitValue(c) ==
    CASE c = "0" -> 0 [] c = "1" -> 1 [] c = "2" -> 2 [] c = "3" -> 3
      [] c = "4" -> 4 [] c = "5" -> 5 [] c = "6" -> 6 [] c = "7" -> 7
      [] c = "8" -> 8 [] c = "9" -> 9

\* str.split(sep): the pieces between the separators, empty pieces kept
RECURSIVE SplitFrom(_, _, _, _)
SplitFrom(s, sep, i, cur) ==
    IF i > Len(s) THEN <<cur>>
    ELSE IF s[i] = sep THEN <<cur>> \o SplitFrom(s, sep, i + 1, <<>>)
    ELSE SplitFrom(s, sep, i + 1, Append(cur, s[i]))

str_split(s, sep) == SplitFrom(s, sep, 1, <<>>)

RECURSIVE str_lstrip(_)
str_lstrip(s) ==
    IF s # <<>> /\ Head(s) = " " THEN str_lstrip(Tail(s)) ELSE s

RECURSIVE str_rstrip(_)
str_rstrip(s) ==
    IF s # <<>> /\ s[Len(s)] = " "
    THEN str_rstrip(SubSeq(s, 1, Len(s) - 1))
    ELSE s

\* str.strip()
str_strip(s) == str_rstrip(str_lstrip(s))

RECURSIVE DecimalValue(_)
DecimalValue(s) ==
    IF s = <<>> THEN 0
    ELSE 10 * DecimalValue(SubSeq(s, 1, Len(s) - 1)) + DigitValue(s[Len(s)])

AllDigits(s) == s # <<>> /\ \A i \in 1..Len(s) : s[i] \in Digits

\* int(str): surrounding whitespace ignored, an optional sign, then digits;
\* anything else raises ValueError
int(s) ==
    LET t == str_strip(s)
        body == IF t # <<>> /\ Head(t) = "-" THEN Tail(t) ELSE t
        sign == IF t # <<>> /\ Head(t) = "-" THEN -1 ELSE 1
    IN  IF AllDigits(body)
        THEN [exc |-> "none", value |-> sign * DecimalValue(body)]
        ELSE [exc |-> "ValueError", value |-> 0]

\* list(range(start, stop))
range(start, stop) ==
    IF start < stop THEN [i \in 1..(stop - start) |-> start + i - 1] ELSE <<>>

\* set(list)
set(xs) == {xs[i] : i \in DOMAIN xs}

\* sorted(set): ascending list of the members
RECURSIVE sorted(_)
sorted(S) ==
    IF S = {} THEN <<>>
    ELSE LET m == CHOOSE x \in S : \A y \in S : x <= y
         IN  <<m>> \o sorted(S \ {m})

----------------------------------------------------------------------------
(* PDF byte buffers, as pypdf sees them.  A page carries its number in the *)
(* file it was uploaded in, the text page.extract_text() yields (or the    *)
(* fact that it raises) and its share of the file's bytes.  The text is    *)
(* kept as its length in three runs: leading blanks, the part between the  *)
(* first and the last non-blank character, trailing blanks.                *)

Text(lead, core, trail) ==
    [raises |-> FALSE, lead |-> lead, core |-> core, trail |-> trail]

NoExtractableText == [raises |-> TRUE, lead |-> 0, core |-> 0, trail |-> 0]

Page(no, text, nbytes) == [no |-> no, text |-> text, nbytes |-> nbytes]

\* what PdfWriter.write() produces for the pages added to the writer
Pdf(pages) == [readable |-> TRUE, pages |-> pages]

\* bytes PdfReader cannot read
UnreadablePdf == [readable |-> FALSE, pages |-> <<>>]

\* PdfReader(BytesIO(pdf_bytes)).pages, or the error it raises
PdfReader(pdf) ==
    IF pdf.readable
    THEN [exc |-> "none", pages |-> pdf.pages]
    ELSE [exc |-> "PdfReadError", pages |-> <<>>]

PdfRaised(e) == [exc |-> e, pdf |-> UnreadablePdf]
PdfReturned(pdf) == [exc |-> "none", pdf |-> pdf]

----------------------------------------------------------------------------
(* The state of an operation that is not running. *)

NoParse == [exc |-> "none", pages |-> <<>>]

ParseIdle ==
    /\ range_str = <<>>
    /\ max_pages = 0
    /\ parse_pc = "idle"
    /\ parse_out = NoParse

NoMerge == PdfReturned(Pdf(<<>>))

DocIdle ==
    /\ src_doc = Pdf(<<>>)
    /\ selections = <<>>
    /\ pieces = <<>>
    /\ merged = NoMerge
    /\ doc_pc = "idle"

NoTextResult ==
    [has_text |-> FALSE, text_ratio |-> [num |-> 0, den |-> 1], warned |-> FALSE]

TextIdle ==
    /\ text_doc = Pdf(<<>>)
    /\ text_out = NoTextResult
    /\ text_pc = "idle"

\* results: analysis_results; errors: the st.error reports; warnings: the
\* st.warning reports
NoAnalysis == [results |-> <<>>, errors |-> <<>>, warnings |-> <<>>]

AnalyzeIdle ==
    /\ file_data = <<>>
    /\ analysis = NoAnalysis
    /\ an_pc = "idle"

\* a name that holds None, or was not assigned yet
NonePdf == [kind |-> "None", attempt |-> 0, size |-> 0]
UnsetPdf == [kind |-> "unset", attempt |-> 0, size |-> 0]

LoopNotStarted ==
    /\ attempt = 0
    /\ current_dpi = 0
    /\ current_quality = 0
    /\ compression_data = <<>>
    /\ compressed_pdf_bytes = UnsetPdf
    /\ raster_calls = 0

NoResultYet ==
    /\ final_pdf = UnsetPdf
    /\ final_size = 0
    /\ text_preserved = FALSE
    /\ shown = {}
    /\ download = UnsetPdf

\* a PDF of which nothing is known: pdf_to_compressed_pdf may return a PDF
\* of any size, or None
AnyOutcome ==
    [monotone |-> FALSE, dpi_step |-> 0, quality_step |-> 0,
     small |-> 0, big |-> 0]

MainIdle ==
    /\ combined_pdf = Pdf(<<>>)
    /\ raster_profile = AnyOutcome
    /\ combined_size = 0
    /\ combined_has_text = FALSE
    /\ max_size_mb = 0
    /\ preserve_text = FALSE
    /\ dpi = 0
    /\ quality = 0
    /\ main_pc = "idle"
    /\ LoopNotStarted
    /\ NoResultYet

\* find_split_point has returned nothing yet
NoSplit == [exc |-> "none", split_point |-> 0, size1 |-> 0, size2 |-> 0]

SplitIdle ==
    /\ split_pdf = Pdf(<<>>)
    /\ split_limit = 0
    /\ low = 0
    /\ high = 0
    /\ split_pc = "idle"
    /\ split_out = NoSplit
    /\ extract_calls = 0

\* no step of the call fails
NoFault == [at |-> "none", page |-> 0]

RasterIdle ==
    /\ input_pages = 0
    /\ fault = NoFault
    /\ temp_dir = {}
    /\ images = <<>>
    /\ temp_images = <<>>
    /\ raster_pc = "idle"
    /\ raster_out = "unset"

----------------------------------------------------------------------------
(* parse_page_range *)

Raised(e) == [exc |-> e, pages |-> <<>>]
Returned(ps) == [exc |-> "none", pages |-> ps]

\* stop of the range a "start-end" token expands to
range_stop_unclamped(end, mp) == end + 1
range_stop(end, mp) == Min(end, mp) + 1

\* whether a single-page token is kept
keep_page_exclusive(page, mp) == page < mp
keep_page_from_one(page, mp) == 1 <= page /\ page <= mp
keep_page(page, mp) == page <= mp

\* the returned list
pages_as_collected(ps) == ps
dedup_sort(ps) == sorted(set(ps))

\* the loop over the comma-separated parts; ps is the list collected so far
RECURSIVE ParseParts(_, _, _)
ParseParts(parts, mp, ps) ==
    IF parts = <<>> THEN Returned(dedup_sort(ps))
    ELSE
      LET part == str_strip(Head(parts)) IN
      IF "-" \in set(part)
      THEN LET halves == str_split(part, "-") IN
           IF Len(halves) # 2 THEN Raised("ValueError")  \* unpacking fails
           ELSE LET start == int(str_strip(halves[1]))
                    end == int(str_strip(halves[2]))
                IN  IF start.exc # "none" \/ end.exc # "none"
                    THEN Raised("ValueError")
                    ELSE ParseParts(Tail(parts), mp,
                           ps \o range(start.value, range_stop(end.value, mp)))
      ELSE LET page == int(part) IN
           IF page.exc # "none" THEN Raised("ValueError")
           ELSE ParseParts(Tail(parts), mp,
                  IF keep_page(page.value, mp)
                  THEN Append(ps, page.value) ELSE ps)

parse_page_range(rs, mp) == ParseParts(str_split(rs, ","), mp, <<>>)

----------------------------------------------------------------------------
(* Inputs of the parser: every string over SpecChars up to MaxLen, with    *)
(* every page count up to MaxPages, and the page specs the documentation   *)
(* quotes.                                                                 *)

SpecChars == {"0", "1", "2", ",", "-", " ", "x"}

StringsUpTo(n) == UNION {[1..k -> SpecChars] : k \in 0..n}

QuotedSpecs ==
    { << <<"1", "-", "3", ",", "5", ",", "7", "-", "9">>, 9 >>,
      << <<"5", "-", "2">>, 10 >>,
      << <<"1", ",", "1", ",", "2">>, 10 >>,
      << <<>>, 5 >>,
      << <<" ", "1", " ", "-", " ", "2", " ", ",", "2", "-", "3">>, 3 >>,
      << <<"2", "-", "9", ",", "1", "2", ",", "1">>, 4 >>,
      << <<"0", "-", "3">>, 2 >> }

ParserInputs == (StringsUpTo(MaxLen) \X (0..MaxPages)) \cup QuotedSpecs

InitParse ==
    /\ \E in \in ParserInputs : range_str = in[1] /\ max_pages = in[2]
    /\ parse_pc = "call"
    /\ parse_out = NoParse
    /\ DocIdle /\ TextIdle /\ AnalyzeIdle /\ MainIdle /\ SplitIdle /\ RasterIdle

\* one call of parse_page_range on the chosen input
ParsePageRange ==
    /\ parse_pc = "call"
    /\ parse_out' = parse_page_range(range_str, max_pages)
    /\ parse_pc' = "done"
    /\ UNCHANGED <<range_str, max_pages, docVars, textVars, anVars, mainVars, splitVars, rasterVars>>

NextParse == ParsePageRange

SpecParse == InitParse /\ [][NextParse]_vars

----------------------------------------------------------------------------
(* Claims about parse_page_range, checked under SpecParse. *)

Tokens(rs) == str_split(rs, ",")

\* a run of digits, possibly surrounded by blanks
IsNumber(s) == AllDigits(str_strip(s))

NumberOf(s) == DecimalValue(str_strip(s))

HyphenAt(tok) == CHOOSE k \in 1..Len(tok) : tok[k] = "-"

IsRangeToken(tok) ==
    \E k \in 1..Len(tok) :
        /\ tok[k] = "-"
        /\ IsNumber(SubSeq(tok, 1, k - 1))
        /\ IsNumber(SubSeq(tok, k + 1, Len(tok)))

\* a spec made of integer tokens and start-end range tokens
WellFormedSpec(rs) ==
    \A i \in DOMAIN Tokens(rs) :
        IsNumber(Tokens(rs)[i]) \/ IsRangeToken(Tokens(rs)[i])

\* the pages one token of a well-formed spec asks for, after clamping
TokenPages(tok, mp) ==
    IF IsRangeToken(tok)
    THEN LET k == HyphenAt(tok)
             start == NumberOf(SubSeq(tok, 1, k - 1))
             end == NumberOf(SubSeq(tok, k + 1, Len(tok)))
         IN  {p \in start..end : p <= mp}
    ELSE {p \in {NumberOf(tok)} : p <= mp}

ExpectedPages(rs, mp) ==
    UNION {TokenPages(Tokens(rs)[i], mp) : i \in DOMAIN Tokens(rs)}

Spec_1_3_5_7_9 == <<"1", "-", "3", ",", "5", ",", "7", "-", "9">>

\* C1: for every spec made of integer tokens and start-end range tokens,
\* parse_page_range returns (without raising) exactly the union of
\* start..min(end, maxPages) over the range tokens and of the single values
\* that are <= maxPages; "1-3,5,7-9" with 9 gives [1,2,3,5,7,8,9] and "5-2"
\* with 10 gives [].
C1_ParseReturnsUnion ==
    (parse_pc = "done" /\ WellFormedSpec(range_str)) =>
        /\ parse_out.exc = "none"
        /\ set(parse_out.pages) = ExpectedPages(range_str, max_pages)
        /\ (range_str = Spec_1_3_5_7_9 /\ max_pages = 9) =>
               parse_out.pages = <<1, 2, 3, 5, 7, 8, 9>>
        /\ (range_str = <<"5", "-", "2">> /\ max_pages = 10) =>
               parse_out.pages = <<>>

C1_Witness ==
    /\ parse_pc = "done"
    /\ range_str = Spec_1_3_5_7_9
    /\ max_pages = 9
    /\ parse_out = Returned(<<1, 2, 3, 5, 7, 8, 9>>)

\* C2: whenever parse_page_range returns, the list is strictly ascending
\* (hence free of duplicates), whatever the order or overlap of the tokens.
C2_ParseStrictlyAscending ==
    (parse_pc = "done" /\ parse_out.exc = "none") =>
        \A i, j \in DOMAIN parse_out.pages :
            i < j => parse_out.pages[i] < parse_out.pages[j]

C2_Witness ==
    /\ parse_pc = "done"
    /\ range_str = <<"1", ",", "1", ",", "2">>
    /\ max_pages = 10
    /\ parse_out = Returned(<<1, 2>>)

\* C3: on the empty spec parse_page_range returns the empty page set and
\* raises nothing, for any maxPages.
C3_EmptySpecGivesEmptySet ==
    (parse_pc = "done" /\ range_str = <<>>) => parse_out = Returned(<<>>)

\* C4: every index parse_page_range returns lies in [1, pageCount].
C4_PagesWithinDocument ==
    (parse_pc = "done" /\ parse_out.exc = "none") =>
        \A i \in DOMAIN parse_out.pages :
            1 <= parse_out.pages[i] /\ parse_out.pages[i] <= max_pages

----------------------------------------------------------------------------
(* extract_pages and merge_pdfs *)

\* the re-check of a requested page number against the PDF's page count
in_bounds_skip_first(page_num, n) == 0 < page_num - 1 /\ page_num - 1 < n
in_bounds(page_num, n) == 0 <= page_num - 1 /\ page_num - 1 < n

\* the loop over page_range; out is what the writer holds so far.  Python's
\* reader.pages[page_num - 1] is the page_num-th page.
RECURSIVE AddSelected(_, _, _)
AddSelected(rpages, page_range, out) ==
    IF page_range = <<>> THEN out
    ELSE LET page_num == Head(page_range) IN
         AddSelected(rpages, Tail(page_range),
             IF in_bounds(page_num, Len(rpages))
             THEN Append(out, rpages[(page_num - 1) + 1])
             ELSE out)

extract_pages(input_pdf_bytes, page_range) ==
    LET reader == PdfReader(input_pdf_bytes) IN
    IF reader.exc # "none" THEN PdfRaised(reader.exc)
    ELSE PdfReturned(Pdf(AddSelected(reader.pages, page_range, <<>>)))

\* the inner loop of merge_pdfs: every page of one reader goes to the writer
add_all_in_front(out, rpages) == rpages \o out
add_all_but_first(out, rpages) == out \o (IF rpages = <<>> THEN <<>> ELSE Tail(rpages))
add_all(out, rpages) == out \o rpages

\* the outer loop of merge_pdfs; out is what the writer holds so far
RECURSIVE MergeFrom(_, _)
MergeFrom(pdf_bytes_list, out) ==
    IF pdf_bytes_list = <<>> THEN PdfReturned(Pdf(out))
    ELSE LET reader == PdfReader(Head(pdf_bytes_list)) IN
         IF reader.exc # "none" THEN PdfRaised(reader.exc)
         ELSE MergeFrom(Tail(pdf_bytes_list), add_all(out, reader.pages))

merge_pdfs(pdf_bytes_list) == MergeFrom(pdf_bytes_list, <<>>)

\* an uploaded PDF of n pages, each with a line of text
PlainText == Text(0, 11, 0)

SamplePdf(n) == Pdf([i \in 1..n |-> Page(i, PlainText, 1)])

ExtractSources == {SamplePdf(n) : n \in 0..MaxDocPages} \cup {UnreadablePdf}

\* page lists of any order, with repeats and with numbers outside the PDF
PageLists ==
    UNION {[1..k -> (-1)..(MaxDocPages + 1)] : k \in 0..MaxSel}

\* page lists start..end, as a "start-end" spec selects them
PageRanges ==
    {range(a, b + 1) : a \in 0..(MaxDocPages + 1), b \in 0..(MaxDocPages + 1)}

InitExtract ==
    /\ src_doc \in ExtractSources
    /\ selections = <<>>
    /\ pieces = <<>>
    /\ merged = NoMerge
    /\ doc_pc = "extract"
    /\ ParseIdle /\ TextIdle /\ AnalyzeIdle /\ MainIdle /\ SplitIdle /\ RasterIdle

\* one call of extract_pages with any page list
ExtractPages ==
    /\ doc_pc = "extract"
    /\ \E page_range \in PageLists :
          /\ selections' = Append(selections, page_range)
          /\ pieces' = Append(pieces, extract_pages(src_doc, page_range))
    /\ doc_pc' = "done"
    /\ UNCHANGED <<src_doc, merged, parseVars, textVars, anVars, mainVars, splitVars, rasterVars>>

NextExtract == ExtractPages

SpecExtract == InitExtract /\ [][NextExtract]_vars

InitMerge ==
    /\ src_doc \in {SamplePdf(n) : n \in 0..MaxDocPages}
    /\ selections = <<>>
    /\ pieces = <<>>
    /\ merged = NoMerge
    /\ doc_pc = "pieces"
    /\ ParseIdle /\ TextIdle /\ AnalyzeIdle /\ MainIdle /\ SplitIdle /\ RasterIdle

\* one more part of the PDF is extracted, to be merged later
ExtractPart ==
    /\ doc_pc = "pieces"
    /\ Len(pieces) < MaxPieces
    /\ \E page_range \in PageRanges :
          /\ selections' = Append(selections, page_range)
          /\ pieces' = Append(pieces, extract_pages(src_doc, page_range))
    /\ UNCHANGED <<src_doc, merged, doc_pc, parseVars, textVars, anVars, mainVars, splitVars, rasterVars>>

\* merge_pdfs on the PDFs extracted so far
MergePdfs ==
    /\ doc_pc = "pieces"
    /\ merged' = merge_pdfs([k \in DOMAIN pieces |-> pieces[k].pdf])
    /\ doc_pc' = "done"
    /\ UNCHANGED <<src_doc, selections, pieces, parseVars, textVars, anVars, mainVars, splitVars, rasterVars>>

NextMerge == ExtractPart \/ MergePdfs

SpecMerge == InitMerge /\ [][NextMerge]_vars

----------------------------------------------------------------------------
(* Claims about extract_pages (under SpecExtract) and merge_pdfs (under    *)
(* SpecMerge).                                                             *)

\* the positions of a page list that name a page of an n-page PDF
KeptPositions(page_range, n) ==
    {i \in DOMAIN page_range : 1 <= page_range[i] /\ page_range[i] <= n}

\* how many members of S are at or before position i
RankIn(S, i) == Cardinality({j \in S : j <= i})

ExtractedAsSelected ==
    (doc_pc = "done" /\ src_doc.readable) =>
        LET page_range == selections[1]
            out == pieces[1]
            kept == KeptPositions(page_range, Len(src_doc.pages))
        IN  /\ out.exc = "none"
            /\ out.pdf.readable
            /\ Len(out.pdf.pages) = Cardinality(kept)
            /\ \A i \in kept :
                  out.pdf.pages[RankIn(kept, i)] = src_doc.pages[page_range[i]]
            /\ (kept = {}) => out.pdf = Pdf(<<>>)

\* C6: extract_pages returns a new PDF holding exactly the pages of the
\* input at the indices of the page list that lie in [1, pageCount], in the
\* order of the list; out-of-bounds indices are skipped without error, an
\* empty or entirely out-of-range list gives a zero-page PDF, and the input
\* PDF is left as it was.
C6_ExtractPagesSelects ==
    [](ExtractedAsSelected) /\ [][src_doc' = src_doc]_vars

C6_Witness ==
    /\ doc_pc = "done"
    /\ src_doc = SamplePdf(3)
    /\ selections = << <<3, 0, 1>> >>
    /\ pieces[1].exc = "none"
    /\ pieces[1].pdf.pages = <<src_doc.pages[3], src_doc.pages[1]>>

MergeInputs == [k \in DOMAIN pieces |-> pieces[k].pdf]

\* the number of pages in the PDFs before the k-th
RECURSIVE PagesBefore(_, _)
PagesBefore(pdfs, k) ==
    IF k <= 1 THEN 0
    ELSE PagesBefore(pdfs, k - 1) + Len(pdfs[k - 1].pages)

\* C7: merge_pdfs returns a PDF whose page sequence is the concatenation of
\* the inputs' page sequences in input order; its page count is the sum of
\* theirs, and for two inputs pageCount(A) + pageCount(B).
C7_MergeConcatenates ==
    doc_pc = "done" =>
        /\ merged.exc = "none"
        /\ merged.pdf.readable
        /\ Len(merged.pdf.pages) = PagesBefore(MergeInputs, Len(pieces) + 1)
        /\ \A k \in DOMAIN pieces : \A i \in DOMAIN pieces[k].pdf.pages :
              merged.pdf.pages[PagesBefore(MergeInputs, k) + i]
                  = pieces[k].pdf.pages[i]
        /\ (Len(pieces) = 2) =>
              Len(merged.pdf.pages)
                  = Len(pieces[1].pdf.pages) + Len(pieces[2].pdf.pages)

C7_Witness ==
    /\ doc_pc = "done"
    /\ Len(pieces) = 2
    /\ Len(pieces[1].pdf.pages) = 2
    /\ Len(pieces[2].pdf.pages) = 1
    /\ pieces[1].pdf.pages[1] # pieces[2].pdf.pages[1]
    /\ Len(merged.pdf.pages) = 3

RECURSIVE Flatten(_)
Flatten(lists) ==
    IF lists = <<>> THEN <<>> ELSE Head(lists) \o Flatten(Tail(lists))

\* the page lists are consecutive pieces of the full page set 1..pageCount
FullPageSetInPieces ==
    Flatten(selections) = range(1, Len(src_doc.pages) + 1)

\* C8: extracting the full page set of a PDF, in one or several consecutive
\* pieces, and merging the extracted PDFs gives a PDF with the page count of
\* the original.
C8_ExtractMergeKeepsPageCount ==
    (doc_pc = "done" /\ FullPageSetInPieces) =>
        /\ merged.exc = "none"
        /\ Len(merged.pdf.pages) = Len(src_doc.pages)

C8_Witness ==
    /\ doc_pc = "done"
    /\ Len(src_doc.pages) = 3
    /\ selections = << <<1, 2>>, <<3>> >>
    /\ Len(merged.pdf.pages) = 3

----------------------------------------------------------------------------
(* detect_text_content *)

\* a page has useful text when its text is longer than this
MinTextChars == 10

\* str.strip() and len() on an extracted text
text_strip(text) == Text(0, text.core, 0)
text_len(text) == text.lead + text.core + text.trail

\* `text and len(text) > 10`
has_useful_text_from_ten(text) == text_len(text) >= MinTextChars
has_useful_text(text) == text_len(text) # 0 /\ text_len(text) > MinTextChars

RECURSIVE GCD(_, _)
GCD(a, b) == IF b = 0 THEN a ELSE GCD(b, a % b)

\* the float a / b, kept as the fraction in lowest terms
Divide(a, b) == [num |-> a \div GCD(a, b), den |-> b \div GCD(a, b)]

Zero == [num |-> 0, den |-> 1]

\* text_ratio > 0.5
at_least_half(ratio) == 2 * ratio.num >= ratio.den
more_than_half(ratio) == 2 * ratio.num > ratio.den

\* the loop over reader.pages; n is pages_with_text so far
RECURSIVE CountTextPages(_, _)
CountTextPages(rpages, n) ==
    IF rpages = <<>> THEN [exc |-> "none", count |-> n]
    ELSE LET extracted == Head(rpages).text IN
         IF extracted.raises THEN [exc |-> "Exception", count |-> n]
         ELSE CountTextPages(Tail(rpages),
                IF has_useful_text(text_strip(extracted)) THEN n + 1 ELSE n)

\* the except branch: a warning, and (False, 0.0)
TextDetectionFailed ==
    [has_text |-> FALSE, text_ratio |-> Zero, warned |-> TRUE]

detect_text_content(pdf_bytes) ==
    LET reader == PdfReader(pdf_bytes) IN
    IF reader.exc # "none" THEN TextDetectionFailed
    ELSE
      LET total_pages == Len(reader.pages)
          counted == CountTextPages(reader.pages, 0)
      IN  IF counted.exc # "none" THEN TextDetectionFailed
          ELSE LET text_ratio == IF total_pages > 0
                                 THEN Divide(counted.count, total_pages)
                                 ELSE Zero
               IN  [has_text |-> more_than_half(text_ratio),
                    text_ratio |-> text_ratio,
                    warned |-> FALSE]

\* texts a page may yield: none, blanks only, ten characters, ten characters
\* between blanks, eleven characters, or an extraction that raises
PageTexts ==
    {Text(0, 0, 0), Text(12, 0, 0), Text(0, 10, 0), Text(1, 10, 1),
     Text(0, 11, 0), NoExtractableText}

TextPdfs ==
    {Pdf([i \in DOMAIN texts |-> Page(i, texts[i], 1)]) :
        texts \in UNION {[1..k -> PageTexts] : k \in 0..MaxTextPages}}

InitText ==
    /\ text_doc \in TextPdfs \cup {UnreadablePdf}
    /\ text_out = NoTextResult
    /\ text_pc = "call"
    /\ ParseIdle /\ DocIdle /\ AnalyzeIdle /\ MainIdle /\ SplitIdle /\ RasterIdle

\* one call of detect_text_content
DetectTextContent ==
    /\ text_pc = "call"
    /\ text_out' = detect_text_content(text_doc)
    /\ text_pc' = "done"
    /\ UNCHANGED <<text_doc, parseVars, docVars, anVars, mainVars, splitVars, rasterVars>>

NextText == DetectTextContent

SpecText == InitText /\ [][NextText]_vars

----------------------------------------------------------------------------
(* Claims about detect_text_content, checked under SpecText. *)

\* the pages whose trimmed text is longer than 10 characters
TextfulPages(pdf) ==
    {i \in DOMAIN pdf.pages : pdf.pages[i].text.core > 10}

TextExtractable(pdf) ==
    pdf.readable /\ \A i \in DOMAIN pdf.pages : ~pdf.pages[i].text.raises

----------------------------------------------------------------------------
(* get_file_size and analyze_pdfs_for_compression *)

\* len(file_bytes): the pages' shares of the file; the shares are given in
\* MB, the unit get_file_size converts to
RECURSIVE BytesOfPages(_)
BytesOfPages(pages) ==
    IF pages = <<>> THEN 0 ELSE Head(pages).nbytes + BytesOfPages(Tail(pages))

get_file_size(file_bytes) == BytesOfPages(file_bytes.pages)

\* st.error(...) in the except branch: the file is reported
Reported(acc, name, exc) ==
    [acc EXCEPT !.errors = Append(@, [name |-> name, exc |-> exc])]

\* `if not pages: continue`: the file is passed over and nothing is shown
Skipped(acc, name) == acc

\* `continue` after the report: the files still to be analysed
rest_when_aborting(rest) == <<>>
rest_after_error(rest) == rest

\* the loop over file_data; acc holds analysis_results and the reports so far
RECURSIVE AnalyzeFrom(_, _)
AnalyzeFrom(fd, acc) ==
    IF fd = <<>> THEN acc
    ELSE
      LET data == Head(fd)
          parsed == parse_page_range(data.page_range, data.num_pages)
      IN
      IF parsed.exc # "none"
      THEN AnalyzeFrom(rest_after_error(Tail(fd)),
                       Reported(acc, data.name, parsed.exc))
      ELSE IF parsed.pages = <<>>
      THEN AnalyzeFrom(Tail(fd), Skipped(acc, data.name))
      ELSE
        LET extracted == extract_pages(data.bytes, parsed.pages) IN
        IF extracted.exc # "none"
        THEN AnalyzeFrom(rest_after_error(Tail(fd)),
                         Reported(acc, data.name, extracted.exc))
        ELSE
          LET detected == detect_text_content(extracted.pdf)
              entry == [name |-> data.name,
                        extracted_pdf |-> extracted.pdf,
                        has_text |-> detected.has_text,
                        text_ratio |-> detected.text_ratio,
                        size_mb |-> get_file_size(extracted.pdf),
                        pages_selected |-> Len(parsed.pages)]
          IN  AnalyzeFrom(Tail(fd),
                          [acc EXCEPT !.results = Append(@, entry)])

analyze_pdfs_for_compression(fd) == AnalyzeFrom(fd, NoAnalysis)

\* what the user may have typed for a two-page file: all pages, page 0, a
\* word, nothing, a page beyond the end
TypedSpecs ==
    { <<"1", "-", "2">>, <<"0">>, <<"x">>, <<>>, <<"9">> }

UploadedBytes == {SamplePdf(2), UnreadablePdf}

\* the batches: files are named by their place in the upload
Batches ==
    { [i \in DOMAIN fs |->
          [name |-> i, bytes |-> fs[i][2],
           page_range |-> fs[i][1], num_pages |-> 2]] :
      fs \in UNION {[1..k -> TypedSpecs \X UploadedBytes] : k \in 0..MaxFiles} }

InitAnalyze ==
    /\ file_data \in Batches
    /\ analysis = NoAnalysis
    /\ an_pc = "call"
    /\ ParseIdle /\ DocIdle /\ TextIdle /\ MainIdle /\ SplitIdle /\ RasterIdle

\* one call of analyze_pdfs_for_compression on the batch
AnalyzePdfs ==
    /\ an_pc = "call"
    /\ analysis' = analyze_pdfs_for_compression(file_data)
    /\ an_pc' = "done"
    /\ UNCHANGED <<file_data, parseVars, docVars, textVars, mainVars, splitVars, rasterVars>>

NextAnalyze == AnalyzePdfs

SpecAnalyze == InitAnalyze /\ [][NextAnalyze]_vars

----------------------------------------------------------------------------
(* Claims about analyze_pdfs_for_compression, checked under SpecAnalyze. *)

SelectionOf(data) == parse_page_range(data.page_range, data.num_pages)

\* the page spec is not integer-parseable
HasFormatError(data) == SelectionOf(data).exc # "none"

HasEmptySelection(data) ==
    ~HasFormatError(data) /\ SelectionOf(data).pages = <<>>

\* the selected pages cannot be read from the file's bytes
HasParseError(data) ==
    /\ ~HasFormatError(data)
    /\ ~HasEmptySelection(data)
    /\ ~data.bytes.readable

FailingFiles ==
    {i \in DOMAIN file_data :
        HasFormatError(file_data[i]) \/ HasParseError(file_data[i])}

SelectedFiles ==
    {i \in DOMAIN file_data :
        /\ i \notin FailingFiles
        /\ ~HasEmptySelection(file_data[i])}

NamesOf(entries) == {entries[k].name : k \in DOMAIN entries}

InInputOrder(entries) ==
    \A j, k \in DOMAIN entries : j < k => entries[j].name < entries[k].name

----------------------------------------------------------------------------
(* The combine handler of main(): the size check, the text-preserving      *)
(* passthrough and the size-targeting loop around pdf_to_compressed_pdf.   *)

\* for attempt in range(10)
MaxAttempts == 10
\* max(50, ...) and max(20, ...)
MinDpi == 50
MinQuality == 20
\* the factor 0.85, in percent
DecayPercent == 85

Max(a, b) == IF a >= b THEN a ELSE b

\* int(x * 0.85): the product truncated
decayed(x) == (x * DecayPercent) \div 100

next_dpi(d) == Max(MinDpi, decayed(d))
next_quality(q) == Max(MinQuality, decayed(q))

\* whether range(10) yields another value after the one just used
another_attempt_inclusive(next) == next <= MaxAttempts
another_attempt_early(next) == next < MaxAttempts - 1
another_attempt(next) == next < MaxAttempts

\* `compressed_pdf_bytes is None`
is_none_unchecked(pdf) == FALSE
is_none(pdf) == pdf.kind = "None"

\* `compressed_size <= max_size_mb`, the test that leaves the loop
fits_strictly(size, limit) == size < limit
fits(size, limit) == size <= limit

\* the same test where the entry of the trail is labelled
label_of(size, limit) == IF size <= limit THEN "exito" ELSE "intento"

\* bytes are true unless empty; None is false
truthy(pdf) == pdf.kind \notin {"None", "unset"} /\ pdf.size > 0

CombinedPdf == [kind |-> "combined", attempt |-> 0, size |-> combined_size]

\* the metric "Texto seleccionable" of the under-budget branch
selectable_metric_always_yes(has_text) == "selectable_text_yes"
selectable_metric(has_text) ==
    IF has_text THEN "selectable_text_yes" ELSE "selectable_text_no"

\* the size of the rasterized PDF for a PDF whose pages render to images
\* that get smaller, in one step, once dpi and quality are low enough
size_at(profile, d, q) ==
    IF d > profile.dpi_step \/ q > profile.quality_step
    THEN profile.big ELSE profile.small

\* what pdf_to_compressed_pdf may return at one attempt: None after an
\* error, or a PDF of some size; for a PDF with a known response, the PDF
\* of that size
RasterOutcomes(n, d, q) ==
    IF raster_profile.monotone
    THEN {[kind |-> "compressed", attempt |-> n,
           size |-> size_at(raster_profile, d, q)]}
    ELSE {NonePdf} \cup
         {[kind |-> "compressed", attempt |-> n, size |-> sz] :
             sz \in 1..MaxSizeMB}

\* the combined PDFs: pages of 1 MB each, with or without a line of text
CombinedPdfs ==
    {Pdf([i \in DOMAIN texts |-> Page(i, texts[i], 1)]) :
        texts \in UNION {[1..k -> {PlainText, Text(0, 0, 0)}] :
                            k \in 1..MaxSizeMB}}

\* the state after merge_pdfs, get_file_size and detect_text_content
Combined ==
    /\ combined_pdf \in CombinedPdfs
    /\ combined_size = get_file_size(combined_pdf)
    /\ combined_has_text = detect_text_content(combined_pdf).has_text

\* dpi and quality: the fixed values of minipdf.py, and the ends of the
\* sliders of miniPDF.py
InitialSettings == { <<150, 80>>, <<50, 10>>, <<300, 100>> }

InitMain ==
    /\ Combined
    /\ raster_profile = AnyOutcome
    /\ max_size_mb \in 1..MaxSizeMB
    /\ preserve_text \in BOOLEAN
    /\ \E setting \in InitialSettings :
          dpi = setting[1] /\ quality = setting[2]
    /\ main_pc = "combined"
    /\ LoopNotStarted
    /\ NoResultYet
    /\ ParseIdle /\ DocIdle /\ TextIdle /\ AnalyzeIdle /\ SplitIdle /\ RasterIdle

\* `text_preserved = False` after the loop
text_after_raster_kept == TRUE
text_after_raster == FALSE

\* get_file_size(compressed_pdf_bytes) if compressed_pdf_bytes else
\* combined_size
final_size_always_measured(cbytes, csize) == cbytes.size
final_size_of(cbytes, csize) == IF truthy(cbytes) THEN cbytes.size ELSE csize

\* the metric "Texto preservado"
preserved_metric(preserved) ==
    IF preserved THEN "text_preserved_yes" ELSE "text_preserved_no"

\* the code after the loop: the final PDF, the table of attempts, the
\* metrics, the download button and the warning
ShowResults(cbytes, data, messages) ==
    LET fsize == final_size_of(cbytes, combined_size) IN
    /\ final_pdf' = cbytes
    /\ final_size' = fsize
    /\ text_preserved' = text_after_raster
    /\ shown' = messages
                 \cup (IF data # <<>> THEN {"attempt_table"} ELSE {})
                 \cup (IF truthy(cbytes)
                       THEN {"completed", preserved_metric(text_after_raster)}
                            \cup (IF fsize > max_size_mb
                                  THEN {"target_not_reached"} ELSE {})
                       ELSE {})
    /\ download' = IF truthy(cbytes) THEN cbytes ELSE download
    /\ main_pc' = "done"

\* the combined PDF already meets the limit: it is offered as it is
UnderBudget ==
    /\ main_pc = "combined"
    /\ combined_size <= max_size_mb
    /\ shown' = {"no_compression_needed", selectable_metric(combined_has_text)}
    /\ download' = CombinedPdf
    /\ main_pc' = "done"
    /\ UNCHANGED <<mainInputs, loopVars, final_pdf, final_size, text_preserved>>
    /\ UNCHANGED <<parseVars, docVars, textVars, anVars, splitVars, rasterVars>>

\* the `else:` of the size test: the branch of a combined PDF that is over
\* the limit
else_branch_unguarded(size, limit) == TRUE
else_branch(size, limit) == ~(size <= limit)

\* `combined_has_text and preserve_text`
keep_text == combined_has_text /\ preserve_text

\* the combined PDF is too big and has text to keep: it is taken as the
\* final PDF as it is, and given up if it does not fit
TextPreserveAttempt ==
    /\ main_pc = "combined"
    /\ else_branch(combined_size, max_size_mb)
    /\ keep_text
    /\ final_pdf' = CombinedPdf
    /\ final_size' = combined_size
    /\ text_preserved' = ~(combined_size > max_size_mb)
    /\ shown' = {"text_preserving_attempt"} \cup
                (IF combined_size > max_size_mb
                 THEN {"cannot_keep_text"} ELSE {})
    /\ main_pc' = "text_tried"
    /\ UNCHANGED <<mainInputs, loopVars, download>>
    /\ UNCHANGED <<parseVars, docVars, textVars, anVars, splitVars, rasterVars>>

\* the test in front of the loop
must_rasterize_unless_kept(keep, size, limit) == ~keep
must_rasterize(keep, size, limit) == ~keep \/ (keep /\ size > limit)

\* the start of the loop, for a PDF with no text to keep or after the
\* text-preserving branch; a PDF kept as it is goes to the results
StartCompression ==
    /\ \/ /\ main_pc = "combined"
          /\ else_branch(combined_size, max_size_mb)
          /\ ~keep_text
       \/ main_pc = "text_tried"
    /\ IF must_rasterize(keep_text, combined_size, max_size_mb)
       THEN /\ current_dpi' = dpi
            /\ current_quality' = quality
            /\ compression_data' = <<>>
            /\ compressed_pdf_bytes' = NonePdf
            /\ attempt' = 0
            /\ main_pc' = "loop"
            /\ UNCHANGED <<mainInputs, raster_calls, resultVars>>
       ELSE /\ shown' = shown \cup
                    (IF truthy(final_pdf)
                     THEN {"completed", preserved_metric(text_preserved)}
                          \cup (IF final_size > max_size_mb
                                THEN {"target_not_reached"} ELSE {})
                     ELSE {})
            /\ download' = IF truthy(final_pdf) THEN final_pdf ELSE download
            /\ main_pc' = "done"
            /\ UNCHANGED <<mainInputs, loopVars, final_pdf, final_size,
                           text_preserved>>
    /\ UNCHANGED <<parseVars, docVars, textVars, anVars, splitVars, rasterVars>>

\* one pass of the loop: a call of pdf_to_compressed_pdf, the new entry of
\* the trail, and either the next settings or the code after the loop
Attempt ==
    /\ main_pc = "loop"
    /\ \E produced \in RasterOutcomes(attempt + 1, current_dpi, current_quality) :
         LET failed == is_none(produced)
             met == ~failed /\ fits(produced.size, max_size_mb)
             entry == [Intento |-> attempt + 1,
                       DPI |-> current_dpi,
                       Calidad |-> current_quality,
                       size_mb |-> produced.size,
                       Resultado |-> label_of(produced.size, max_size_mb)]
             data == IF failed THEN compression_data
                     ELSE Append(compression_data, entry)
             leaves == failed \/ met \/ ~another_attempt(attempt + 1)
         IN  /\ raster_calls' = raster_calls + 1
             /\ compressed_pdf_bytes' = produced
             /\ compression_data' = data
             /\ current_dpi' =
                   IF failed \/ met THEN current_dpi ELSE next_dpi(current_dpi)
             /\ current_quality' =
                   IF failed \/ met THEN current_quality
                   ELSE next_quality(current_quality)
             /\ IF leaves
                THEN /\ attempt' = attempt
                     /\ ShowResults(produced, data,
                          shown \cup (IF failed THEN {"compression_error"}
                                      ELSE {}))
                ELSE /\ attempt' = attempt + 1
                     /\ UNCHANGED <<resultVars, main_pc>>
    /\ UNCHANGED <<mainInputs, parseVars, docVars, textVars, anVars, splitVars, rasterVars>>

NextMain == UnderBudget \/ TextPreserveAttempt \/ StartCompression \/ Attempt

SpecMain == InitMain /\ [][NextMain]_vars

\* the same handler on PDFs that rasterize to a smaller PDF once dpi and
\* quality are at or below a step
DpiSteps == {49, 50, 67}
QualitySteps == {10, 20, 21}

MonotoneProfiles ==
    {[monotone |-> TRUE, dpi_step |-> td, quality_step |-> tq,
      small |-> sizes[1], big |-> sizes[2]] :
        td \in DpiSteps, tq \in QualitySteps,
        sizes \in {ab \in (1..MaxSizeMB) \X (1..MaxSizeMB) : ab[1] <= ab[2]}}

InitSearch ==
    /\ Combined
    /\ raster_profile \in MonotoneProfiles
    /\ max_size_mb \in 1..MaxSizeMB
    /\ preserve_text \in BOOLEAN
    /\ \E setting \in InitialSettings :
          dpi = setting[1] /\ quality = setting[2]
    /\ main_pc = "combined"
    /\ LoopNotStarted
    /\ NoResultYet
    /\ ParseIdle /\ DocIdle /\ TextIdle /\ AnalyzeIdle /\ SplitIdle /\ RasterIdle

SpecSearch == InitSearch /\ [][NextMain]_vars

----------------------------------------------------------------------------
(* Claims about the size-targeting loop, checked under SpecMain. *)

\* C10: the search ends after at most 10 calls of pdf_to_compressed_pdf,
\* whatever the PDF, the limit and the initial dpi and quality: the loop is
\* only ever running with fewer than 10 calls made, and the trail never has
\* more than 10 entries.
C10_AtMostTenAttempts ==
    /\ raster_calls <= 10
    /\ Len(compression_data) <= 10
    /\ Len(compression_data) <= raster_calls
    /\ (main_pc = "loop") => (raster_calls < 10 /\ raster_calls = attempt)

C10_Witness ==
    /\ main_pc = "done"
    /\ raster_calls = 10
    /\ Len(compression_data) = 10
    /\ compression_data[10].Resultado = "intento"

\* the settings recorded in the trail, attempt after attempt
TrailNonIncreasing(field) ==
    \A i, j \in DOMAIN compression_data :
        i < j => compression_data[j][field] <= compression_data[i][field]

\* C11: across the attempts of one search neither the dpi nor the quality
\* ever goes up, whatever initial dpi (50..300) and quality (10..100) the
\* sliders supply.
C11_SettingsNeverIncrease ==
    /\ TrailNonIncreasing("DPI")
    /\ TrailNonIncreasing("Calidad")
    /\ (main_pc = "loop" /\ compression_data # <<>>) =>
          LET last == compression_data[Len(compression_data)] IN
          current_dpi <= last.DPI /\ current_quality <= last.Calidad

\* C12: the search stops at the first attempt whose size is within the
\* limit: an entry of the trail is marked as success exactly when its size
\* is within the limit, such an entry is the last one, no call follows it,
\* and the final PDF is the output of that attempt.
C12_StopsAtFirstSuccess ==
    \A i \in DOMAIN compression_data :
        LET entry == compression_data[i] IN
        /\ (entry.Resultado = "exito") <=> (entry.size_mb <= max_size_mb)
        /\ (entry.size_mb <= max_size_mb) =>
              /\ i = Len(compression_data)
              /\ raster_calls = i
              /\ main_pc = "done"
              /\ final_pdf = [kind |-> "compressed", attempt |-> i,
                              size |-> entry.size_mb]
              /\ final_size = entry.size_mb
              /\ download = final_pdf

C12_Witness ==
    /\ main_pc = "done"
    /\ Len(compression_data) = 3
    /\ compression_data[1].Resultado = "intento"
    /\ compression_data[2].Resultado = "intento"
    /\ compression_data[3].Resultado = "exito"
    /\ final_pdf.attempt = 3

\* the search ended with a PDF from the last call that is over the limit
EndedOverLimit ==
    /\ main_pc = "done"
    /\ compression_data # <<>>
    /\ compressed_pdf_bytes.kind = "compressed"
    /\ compression_data[Len(compression_data)].Resultado = "intento"

\* C13: when every attempt rasterizes but none meets the limit, the search
\* ends only after the 10th attempt: the trail holds the 10 attempts, none
\* marked as success, the final PDF and size are those of the 10th attempt,
\* and the 'target not reached' warning is shown.
C13_ExhaustedReturnsLast ==
    EndedOverLimit =>
        LET last == compression_data[Len(compression_data)] IN
        /\ Len(compression_data) = 10
        /\ raster_calls = 10
        /\ \A i \in DOMAIN compression_data :
              /\ compression_data[i].Intento = i
              /\ compression_data[i].Resultado = "intento"
              /\ compression_data[i].size_mb > max_size_mb
        /\ final_pdf = [kind |-> "compressed", attempt |-> 10,
                        size |-> last.size_mb]
        /\ final_pdf = compressed_pdf_bytes
        /\ final_size = last.size_mb
        /\ download = final_pdf
        /\ "target_not_reached" \in shown

C13_Witness ==
    /\ EndedOverLimit
    /\ final_pdf.attempt = 10
    /\ final_size > max_size_mb
    /\ "target_not_reached" \in shown
    /\ dpi = 300

\* a call of pdf_to_compressed_pdf that returns None
FailingCall ==
    /\ raster_calls' = raster_calls + 1
    /\ compressed_pdf_bytes' = NonePdf

\* C14: when pdf_to_compressed_pdf returns no PDF at some attempt the loop
\* is left at once: that call is the last one, dpi and quality are not
\* lowered any further, the error is shown, and the failed attempt is
\* neither added to the trail nor reported as a result still over the limit.
C14_FailureAbortsLoop ==
    /\ [][FailingCall =>
            /\ main_pc' = "done"
            /\ current_dpi' = current_dpi
            /\ current_quality' = current_quality
            /\ compression_data' = compression_data
            /\ "compression_error" \in shown'
            /\ "target_not_reached" \notin shown']_vars
    /\ []((main_pc = "loop") =>
            (raster_calls = 0 \/ compressed_pdf_bytes.kind = "compressed"))

C14_Witness ==
    /\ main_pc = "done"
    /\ raster_calls = 3
    /\ compressed_pdf_bytes = NonePdf
    /\ Len(compression_data) = 2
    /\ current_dpi = next_dpi(next_dpi(dpi))
    /\ "compression_error" \in shown

\* C15 (under SpecSearch): for a PDF whose rasterized size only goes down
\* as dpi and quality go down, and any initial dpi and quality, the search ends with a success
\* within 10 attempts whenever the limit is at least the size at dpi 50 and
\* quality 20, and otherwise ends at attempt 10 without success.
C15_MonotoneSearchSucceeds ==
    (raster_profile.monotone /\ main_pc = "done" /\ raster_calls > 0) =>
        LET last == compression_data[Len(compression_data)] IN
        IF max_size_mb >= size_at(raster_profile, 50, 20)
        THEN raster_calls <= 10 /\ last.Resultado = "exito"
        ELSE raster_calls = 10 /\ last.Resultado = "intento"

\* C19: whenever the combined PDF is within the limit the handler offers the
\* combined PDF itself, makes no rasterization attempt (the trail stays
\* empty) and reports as selectable text what detect_text_content finds on
\* the combined PDF.
C19_UnderBudgetReturnsAsIs ==
    (main_pc = "done" /\ get_file_size(combined_pdf) <= max_size_mb) =>
        LET found == detect_text_content(combined_pdf).has_text IN
        /\ download = [kind |-> "combined", attempt |-> 0,
                       size |-> get_file_size(combined_pdf)]
        /\ raster_calls = 0
        /\ compression_data = <<>>
        /\ "no_compression_needed" \in shown
        /\ ("selectable_text_yes" \in shown) <=> found
        /\ ("selectable_text_no" \in shown) <=> ~found

C19_Witness ==
    /\ main_pc = "done"
    /\ Len(combined_pdf.pages) = 2
    /\ combined_pdf.pages[1].text = PlainText
    /\ combined_pdf.pages[2].text # PlainText
    /\ max_size_mb = 2
    /\ "selectable_text_no" \in shown
    /\ download.kind = "combined"

\* C20: whenever the rasterization loop was entered, the handler ends with
\* text_preserved false and never shows the text as preserved, whether the
\* search met the limit, used up its attempts or was aborted, and whatever
\* the checkbox and the text analysis say.
C20_RasterPathLosesText ==
    (main_pc = "done" /\ raster_calls > 0) =>
        /\ text_preserved = FALSE
        /\ "text_preserved_yes" \notin shown
        /\ truthy(final_pdf) => "text_preserved_no" \in shown

C20_Witness ==
    /\ main_pc = "done"
    /\ raster_calls > 0
    /\ combined_has_text
    /\ preserve_text
    /\ truthy(final_pdf)
    /\ final_size <= max_size_mb
    /\ "text_preserved_no" \in shown

----------------------------------------------------------------------------
(* find_split_point *)

DigitChar(d) ==
    CASE d = 0 -> "0" [] d = 1 -> "1" [] d = 2 -> "2" [] d = 3 -> "3"
      [] d = 4 -> "4" [] d = 5 -> "5" [] d = 6 -> "6" [] d = 7 -> "7"
      [] d = 8 -> "8" [] d = 9 -> "9"

\* str(n), as an f-string formats an int
RECURSIVE str_nat(_)
str_nat(n) ==
    IF n < 10 THEN <<DigitChar(n)>>
    ELSE Append(str_nat(n \div 10), DigitChar(n % 10))

str_int(n) == IF n < 0 THEN <<"-">> \o str_nat(0 - n) ELSE str_nat(n)

\* f"{a}-{b}"
format_range(a, b) == str_int(a) \o <<"-">> \o str_int(b)

\* extract_pages called with a str as page_range: the loop takes the
\* characters one by one, and `page_num - 1` on a character is a TypeError;
\* only the empty str gets through, with no page added
extract_pages_str(input_pdf_bytes, page_range) ==
    LET reader == PdfReader(input_pdf_bytes) IN
    IF reader.exc # "none" THEN PdfRaised(reader.exc)
    ELSE IF page_range = <<>> THEN PdfReturned(Pdf(<<>>))
    ELSE PdfRaised("TypeError")

SplitRaised(e) == [exc |-> e, split_point |-> 0, size1 |-> 0, size2 |-> 0]
SplitReturned(point, s1, s2) ==
    [exc |-> "none", split_point |-> point, size1 |-> s1, size2 |-> s2]

\* the PDFs to split: pages of 1 MB or more each
SplitPdfs ==
    {Pdf([i \in DOMAIN sizes |-> Page(i, PlainText, sizes[i])]) :
        sizes \in UNION {[1..k -> 1..MaxSizeMB] : k \in 0..MaxSplitPages}}

InitSplit ==
    /\ split_pdf \in SplitPdfs
    /\ split_limit \in 1..MaxSizeMB
    /\ low = 0
    /\ high = 0
    /\ split_pc = "call"
    /\ split_out = NoSplit
    /\ extract_calls = 0
    /\ ParseIdle /\ DocIdle /\ TextIdle /\ AnalyzeIdle /\ MainIdle /\ RasterIdle

\* the start of find_split_point: the reader, the size check and the first
\* bounds of the search
FindSplitPoint ==
    /\ split_pc = "call"
    /\ LET reader == PdfReader(split_pdf)
           total_pages == Len(reader.pages)
           original_size == get_file_size(split_pdf)
       IN  IF reader.exc # "none"
           THEN /\ split_out' = SplitRaised(reader.exc)
                /\ split_pc' = "done"
                /\ UNCHANGED <<low, high>>
           ELSE IF original_size <= split_limit
           THEN /\ split_out' =
                      SplitReturned(total_pages, original_size, original_size)
                /\ split_pc' = "done"
                /\ UNCHANGED <<low, high>>
           ELSE /\ low' = 1
                /\ high' = total_pages - 1
                /\ split_pc' = "search"
                /\ UNCHANGED split_out
    /\ UNCHANGED <<split_pdf, split_limit, extract_calls>>
    /\ UNCHANGED <<parseVars, docVars, textVars, anVars, mainVars, rasterVars>>

\* one pass of the binary search.  extract_pages never returns None, so the
\* two `is None` tests never leave the loop.
SearchStep ==
    /\ split_pc = "search"
    /\ low <= high
    /\ LET total_pages == Len(PdfReader(split_pdf).pages)
           mid == (low + high) \div 2
           part1 == extract_pages_str(split_pdf, format_range(1, mid))
           part2 == extract_pages_str(split_pdf,
                                      format_range(mid + 1, total_pages))
           size1 == get_file_size(part1.pdf)
           size2 == get_file_size(part2.pdf)
       IN  IF part1.exc # "none"
           THEN /\ split_out' = SplitRaised(part1.exc)
                /\ split_pc' = "done"
                /\ extract_calls' = extract_calls + 1
                /\ UNCHANGED <<low, high>>
           ELSE IF part2.exc # "none"
           THEN /\ split_out' = SplitRaised(part2.exc)
                /\ split_pc' = "done"
                /\ extract_calls' = extract_calls + 2
                /\ UNCHANGED <<low, high>>
           ELSE IF size1 <= split_limit /\ size2 <= split_limit
           THEN /\ split_out' = SplitReturned(mid, size1, size2)
                /\ split_pc' = "done"
                /\ extract_calls' = extract_calls + 2
                /\ UNCHANGED <<low, high>>
           ELSE /\ IF size1 > split_limit
                   THEN high' = mid - 1 /\ low' = low
                   ELSE low' = mid + 1 /\ high' = high
                /\ extract_calls' = extract_calls + 2
                /\ UNCHANGED <<split_out, split_pc>>
    /\ UNCHANGED <<split_pdf, split_limit>>
    /\ UNCHANGED <<parseVars, docVars, textVars, anVars, mainVars, rasterVars>>

\* the code after the loop: the split at the middle page
Fallback ==
    /\ split_pc = "search"
    /\ ~(low <= high)
    /\ LET total_pages == Len(PdfReader(split_pdf).pages)
           original_size == get_file_size(split_pdf)
           split_point == total_pages \div 2
           part1 == extract_pages_str(split_pdf, format_range(1, split_point))
           part2 == extract_pages_str(split_pdf,
                        format_range(split_point + 1, total_pages))
       IN  IF part1.exc # "none"
           THEN /\ split_out' = SplitRaised(part1.exc)
                /\ extract_calls' = extract_calls + 1
           ELSE IF part2.exc # "none"
           THEN /\ split_out' = SplitRaised(part2.exc)
                /\ extract_calls' = extract_calls + 2
           ELSE /\ split_out' = SplitReturned(split_point,
                                    get_file_size(part1.pdf),
                                    get_file_size(part2.pdf))
                /\ extract_calls' = extract_calls + 2
    /\ split_pc' = "done"
    /\ UNCHANGED <<split_pdf, split_limit, low, high>>
    /\ UNCHANGED <<parseVars, docVars, textVars, anVars, mainVars, rasterVars>>

NextSplit == FindSplitPoint \/ SearchStep \/ Fallback

SpecSplit == InitSplit /\ [][NextSplit]_vars

----------------------------------------------------------------------------
(* Claims about find_split_point, checked under SpecSplit. *)

\* the size of pages a..b of the PDF to split
PartSize(a, b) == BytesOfPages(SubSeq(split_pdf.pages, a, b))

SplitPageCount == Len(split_pdf.pages)

\* splitting after page k leaves both parts within the limit
BothPartsFit(k) ==
    /\ PartSize(1, k) <= split_limit
    /\ PartSize(k + 1, SplitPageCount) <= split_limit

\* C16: the size of a part never shrinks when the part gets more pages
\* (sizes add up here), and whenever some index in 1..pageCount-1 leaves
\* both parts within the limit, find_split_point returns an index at which
\* both parts are within the limit.
C16_SplitFoundWhenOneExists ==
    (split_pc = "done" /\ \E k \in 1..(SplitPageCount - 1) : BothPartsFit(k))
        => (split_out.exc = "none" /\ BothPartsFit(split_out.split_point))

\* C17: when the whole PDF is within the limit, or has fewer than 2 pages,
\* find_split_point returns the page count as split index and the size of
\* the whole PDF as both sizes, without extracting any part.
C17_NoSplitNeededReturnsAtOnce ==
    (split_pc = "done"
        /\ (PartSize(1, SplitPageCount) <= split_limit \/ SplitPageCount < 2))
        => /\ split_out = SplitReturned(SplitPageCount,
                              PartSize(1, SplitPageCount),
                              PartSize(1, SplitPageCount))
           /\ extract_calls = 0

\* C18: when the PDF is over the limit and no index leaves both parts within
\* it, so that the search ends without one, find_split_point returns
\* pageCount // 2 with the actual sizes of the two parts.
C18_FallbackSplitsAtMiddle ==
    (split_pc = "done"
        /\ PartSize(1, SplitPageCount) > split_limit
        /\ ~\E k \in 1..(SplitPageCount - 1) : BothPartsFit(k))
        => LET middle == SplitPageCount \div 2 IN
           split_out = SplitReturned(middle, PartSize(1, middle),
                                     PartSize(middle + 1, SplitPageCount))

----------------------------------------------------------------------------
(* More claims about parse_page_range, checked under SpecParse. *)

\* the spec is one token that writes zero: digits only, all of them 0
IsZeroToken(rs) ==
    /\ "," \notin set(rs)
    /\ AllDigits(str_strip(rs))
    /\ DecimalValue(str_strip(rs)) = 0

\* the spec is one token that writes a minus sign and digits, as "-3"
IsMinusToken(rs) ==
    /\ "," \notin set(rs)
    /\ str_strip(rs) # <<>>
    /\ Head(str_strip(rs)) = "-"
    /\ AllDigits(Tail(str_strip(rs)))

MinusTokenValue(rs) == 0 - DecimalValue(Tail(str_strip(rs)))

\* C25 as stated: a single token with a zero or negative value is not
\* rejected: its value, which is at most maxPages, is returned as the page
\* set, and no error is raised.
C25_NonPositiveTokenPasses ==
    (parse_pc = "done" /\ 0 <= max_pages) =>
        /\ IsZeroToken(range_str) => parse_out = Returned(<<0>>)
        /\ IsMinusToken(range_str) =>
              parse_out = Returned(<<MinusTokenValue(range_str)>>)

\* C25 as amended: a single token that writes zero is returned as page 0
\* whenever 0 <= maxPages; a single token with a minus sign is taken for a
\* range with an empty start and raises ValueError.
C25_ZeroPassesMinusRaises ==
    (parse_pc = "done" /\ 0 <= max_pages) =>
        /\ IsZeroToken(range_str) => parse_out = Returned(<<0>>)
        /\ IsMinusToken(range_str) => parse_out = Raised("ValueError")

C25_Witness ==
    /\ parse_pc = "done"
    /\ range_str = <<" ", "0", "0">>
    /\ max_pages = 2
    /\ parse_out = Returned(<<0>>)

----------------------------------------------------------------------------
(* More claims about analyze_pdfs_for_compression, under SpecAnalyze. *)

\* C28: every entry of the results holds an extracted document of at least
\* one page, and its pages_selected is that document's page count, whatever
\* the page spec of the file was.
C28_EntriesHoldSelectedPages ==
    an_pc = "done" =>
        \A k \in DOMAIN analysis.results :
            /\ Len(analysis.results[k].extracted_pdf.pages) >= 1
            /\ analysis.results[k].pages_selected =
                   Len(analysis.results[k].extracted_pdf.pages)

EmptySelections == {i \in DOMAIN file_data : HasEmptySelection(file_data[i])}

\* C24: a file whose page selection yields zero pages is signaled with a
\* warning and not with an error, and the files after it are still analysed.
C24_EmptySelectionWarns ==
    an_pc = "done" =>
        /\ NamesOf(analysis.warnings) = EmptySelections
        /\ NamesOf(analysis.errors) \cap EmptySelections = {}
        /\ NamesOf(analysis.results) = SelectedFiles

----------------------------------------------------------------------------
(* More claims about find_split_point, checked under SpecSplit. *)

SplitOverBudget == get_file_size(split_pdf) > split_limit

\* C26: on a document over the limit the call ends with a triple and not
\* with an exception, and the two sizes of the triple are the measured sizes
\* of pages 1..mid and of pages mid+1..pageCount at the index it returns.
C26_PartsCoverDocument ==
    (split_pc = "done" /\ SplitOverBudget) =>
        /\ split_out.exc = "none"
        /\ split_out.size1 = PartSize(1, split_out.split_point)
        /\ split_out.size2 =
               PartSize(split_out.split_point + 1, SplitPageCount)

\* C29: for a document over the limit with two pages or more, the index
\* find_split_point returns lies in 1..pageCount-1, so neither part is empty.
C29_SplitIndexInside ==
    (split_pc = "done" /\ SplitOverBudget /\ SplitPageCount >= 2) =>
        /\ split_out.exc = "none"
        /\ split_out.split_point \in 1..(SplitPageCount - 1)

----------------------------------------------------------------------------
(* More claims about the combine handler, checked under SpecMain. *)

\* the loop has ended with at least one attempt in the trail
EndedWithTrail == main_pc = "done" /\ compression_data # <<>>

\* C30 as stated: whenever the trail is not empty when the loop ends, a
\* final PDF is produced and offered, and its size is the size recorded in
\* the last entry of the trail, also when the last call failed.
C30_TrailGivesFinalDocument ==
    EndedWithTrail =>
        /\ truthy(final_pdf)
        /\ final_size = compression_data[Len(compression_data)].size_mb
        /\ download = final_pdf

\* C30 as amended: when the loop ends with a trail and the last call
\* returned a PDF, that PDF is the final one and its size is the size of the
\* last entry; when the last call failed, the trail holds the attempts
\* before it, no final PDF is produced or offered, and the final size is
\* the size of the combined PDF.
C30_LastCallDecidesFinalDocument ==
    EndedWithTrail =>
        LET n == Len(compression_data) IN
        IF compressed_pdf_bytes.kind = "compressed"
        THEN /\ raster_calls = n
             /\ final_pdf = [kind |-> "compressed", attempt |-> n,
                             size |-> compression_data[n].size_mb]
             /\ final_size = compression_data[n].size_mb
             /\ download = final_pdf
        ELSE /\ raster_calls = n + 1
             /\ final_pdf = NonePdf
             /\ final_size = combined_size
             /\ ~truthy(download)
             /\ "completed" \notin shown

C30_Witness ==
    /\ EndedWithTrail
    /\ raster_calls = 2
    /\ Len(compression_data) = 1
    /\ compressed_pdf_bytes = NonePdf
    /\ final_pdf = NonePdf
    /\ final_size = combined_size

\* the state of the orchestrator: where the handler stands, and for a PDF
\* just combined the branch its size and its text send it to
OrchestratorState ==
    CASE main_pc = "combined" ->
            IF combined_size <= max_size_mb THEN "UnderBudget"
            ELSE IF keep_text THEN "TextPreserveAttempt"
            ELSE "RasterSearch"
      [] main_pc = "text_tried" -> "TextPreserveAttempt"
      [] main_pc = "loop" -> "RasterSearch"
      [] main_pc = "done" ->
            IF EndedOverLimit THEN "Exhausted" ELSE "Terminal"
      [] OTHER -> "Idle"

AllowedTransitions ==
    { <<"UnderBudget", "Terminal">>,
      <<"TextPreserveAttempt", "TextPreserveAttempt">>,
      <<"TextPreserveAttempt", "Terminal">>,
      <<"TextPreserveAttempt", "RasterSearch">>,
      <<"RasterSearch", "RasterSearch">>,
      <<"RasterSearch", "Exhausted">>,
      <<"RasterSearch", "Terminal">> }

ListedStep ==
    <<OrchestratorState, OrchestratorState'>> \in AllowedTransitions

\* C21: every step of the handler follows one of the transitions
\* UnderBudget -> terminal, TextPreserveAttempt -> terminal or RasterSearch,
\* RasterSearch -> Exhausted or terminal: the text-preserving branch is
\* never entered once the loop has started, an under-budget PDF goes
\* nowhere but to the end, without any call of pdf_to_compressed_pdf, and
\* nothing happens after the end.
C21_OnlyListedTransitions ==
    /\ [][ListedStep]_vars
    /\ [](("no_compression_needed" \in shown) =>
             (main_pc = "done" /\ raster_calls = 0
                /\ "text_preserving_attempt" \notin shown))
    /\ []((main_pc = "text_tried") => raster_calls = 0)

C21_Witness ==
    /\ OrchestratorState = "Exhausted"
    /\ "text_preserving_attempt" \in shown
    /\ "cannot_keep_text" \in shown
    /\ raster_calls = 10

----------------------------------------------------------------------------
(* The handler's outcome and the checkbox, checked under SpecSearch, where  *)
(* the rasterized size is a function of dpi and quality.                   *)

\* the trail of a search from attempt n at settings d and q, worked out
\* from the PDF's response, the limit and the settings alone
RECURSIVE TrailFrom(_, _, _, _)
TrailFrom(n, d, q, acc) ==
    LET sz == size_at(raster_profile, d, q)
        entry == [Intento |-> n, DPI |-> d, Calidad |-> q, size_mb |-> sz,
                  Resultado |-> IF sz <= max_size_mb THEN "exito"
                                ELSE "intento"]
    IN  IF sz <= max_size_mb \/ n = MaxAttempts
        THEN Append(acc, entry)
        ELSE TrailFrom(n + 1, Max(MinDpi, (d * DecayPercent) \div 100),
                       Max(MinQuality, (q * DecayPercent) \div 100),
                       Append(acc, entry))

\* C27: the final PDF, the final size, the text_preserved flag and the trail
\* are determined by the combined PDF, the limit and the initial dpi and
\* quality, whatever the checkbox says: an under-budget PDF is offered as it
\* is with no trail, and every over-budget PDF goes through the loop, also
\* when it has text and the checkbox asks to keep it.
C27_OutcomeIgnoresPreserveText ==
    main_pc = "done" =>
        IF combined_size <= max_size_mb
        THEN /\ download = CombinedPdf
             /\ final_pdf = UnsetPdf
             /\ final_size = 0
             /\ text_preserved = FALSE
             /\ compression_data = <<>>
        ELSE LET trail == TrailFrom(1, dpi, quality, <<>>)
                 last == trail[Len(trail)]
             IN  /\ raster_calls >= 1
                 /\ compression_data = trail
                 /\ final_pdf = [kind |-> "compressed",
                                 attempt |-> Len(trail),
                                 size |-> last.size_mb]
                 /\ final_size = last.size_mb
                 /\ text_preserved = FALSE
                 /\ download = final_pdf

C27_Witness ==
    /\ main_pc = "done"
    /\ preserve_text
    /\ combined_has_text
    /\ combined_size > max_size_mb
    /\ "cannot_keep_text" \in shown
    /\ raster_calls = 10
    /\ final_size <= max_size_mb
    /\ text_preserved = FALSE

----------------------------------------------------------------------------
(* The combine button of main(), from the analysis of the files to the     *)
(* combined PDF.                                                           *)

\* the sidebar before the button is pressed; dpi and quality are the fixed
\* values of minipdf.py
InitCombine ==
    /\ file_data \in Batches
    /\ analysis = NoAnalysis
    /\ an_pc = "call"
    /\ combined_pdf = Pdf(<<>>)
    /\ raster_profile = AnyOutcome
    /\ combined_size = 0
    /\ combined_has_text = FALSE
    /\ max_size_mb \in 1..MaxSizeMB
    /\ preserve_text \in BOOLEAN
    /\ dpi = 150
    /\ quality = 80
    /\ main_pc = "idle"
    /\ LoopNotStarted
    /\ NoResultYet
    /\ ParseIdle /\ DocIdle /\ TextIdle /\ SplitIdle /\ RasterIdle

\* [result['extracted_pdf'] for result in analysis_results]
extracted_pdfs(results) ==
    [k \in DOMAIN results |-> results[k].extracted_pdf]

\* after the analysis: the stop on an empty result list, or the table of the
\* analysis, the merge, the size and the text analysis of the combined PDF
Combine ==
    /\ an_pc = "done"
    /\ main_pc = "idle"
    /\ IF analysis.results = <<>>
       THEN /\ shown' = {"no_valid_pages"}
            /\ main_pc' = "stopped"
            /\ UNCHANGED <<combined_pdf, combined_size, combined_has_text>>
       ELSE LET joined == merge_pdfs(extracted_pdfs(analysis.results)) IN
            IF joined.exc # "none"
            THEN /\ shown' = {joined.exc}
                 /\ main_pc' = "stopped"
                 /\ UNCHANGED <<combined_pdf, combined_size,
                                combined_has_text>>
            ELSE LET found == detect_text_content(joined.pdf) IN
                 /\ combined_pdf' = joined.pdf
                 /\ combined_size' = get_file_size(joined.pdf)
                 /\ combined_has_text' = found.has_text
                 /\ shown' = {"files_combined"}
                       \cup (IF preserve_text
                             THEN {"analysis_table"} ELSE {})
                       \cup (IF found.has_text /\ preserve_text
                             THEN {"combined_has_text"} ELSE {})
                 /\ main_pc' = "combined"
    /\ UNCHANGED <<raster_profile, max_size_mb, preserve_text, dpi, quality,
                   loopVars, final_pdf, final_size, text_preserved, download>>
    /\ UNCHANGED <<parseVars, docVars, textVars, anVars, splitVars, rasterVars>>

NextCombine == AnalyzePdfs \/ Combine

SpecCombine == InitCombine /\ [][NextCombine]_vars

----------------------------------------------------------------------------
(* Claims about the combine button, checked under SpecCombine. *)

\* the pages of a file that its page spec selects, in the order selected
PagesChosen(data) ==
    LET valid == SelectSeq(SelectionOf(data).pages,
                           LAMBDA q : q \in 1..Len(data.bytes.pages))
    IN  [k \in 1..Len(valid) |-> data.bytes.pages[valid[k]]]

\* the chosen pages of the files from the i-th on that raised no error
RECURSIVE PagesContributedFrom(_)
PagesContributedFrom(i) ==
    IF i > Len(file_data) THEN <<>>
    ELSE (IF i \in FailingFiles THEN <<>> ELSE PagesChosen(file_data[i]))
         \o PagesContributedFrom(i + 1)

\* C23: the merged document holds the chosen pages of the files that raised
\* no error and nothing of the files that raised one, and when no file
\* contributes a page the handler stops with a message before the merge,
\* the text analysis and the compression.
C23_ErrorsExcludedEmptyStops ==
    (an_pc = "done" /\ main_pc # "idle") =>
        /\ (main_pc = "combined") =>
              combined_pdf.pages = PagesContributedFrom(1)
        /\ (PagesContributedFrom(1) = <<>>) =>
              /\ main_pc = "stopped"
              /\ "no_valid_pages" \in shown
              /\ combined_pdf = Pdf(<<>>)
              /\ raster_calls = 0

----------------------------------------------------------------------------
(* pdf_to_compressed_pdf and its temporary files *)

\* the files NamedTemporaryFile(delete=False) creates: the copy of the input
\* and the JPEG of the i-th page
TempPdf == [suffix |-> "pdf", no |-> 0]
TempJpg(i) == [suffix |-> "jpg", no |-> i]

\* what may go wrong in a call on a PDF of n pages: nothing, the rendering
\* of the pages, the saving of the k-th image, the assembling of the PDF, or
\* the removal of one of the files (no 0 is the copy of the input)
RasterFaults(n) ==
    {NoFault, [at |-> "render", page |-> 0], [at |-> "assemble", page |-> 0]}
    \cup {[at |-> "save", page |-> k] : k \in 1..n}
    \cup {[at |-> "remove", page |-> k] : k \in 0..n}

InitRaster ==
    /\ input_pages \in 1..MaxRasterPages
    /\ fault \in RasterFaults(input_pages)
    /\ temp_dir = {}
    /\ images = <<>>
    /\ temp_images = <<>>
    /\ raster_pc = "call"
    /\ raster_out = "unset"
    /\ ParseIdle /\ DocIdle /\ TextIdle /\ AnalyzeIdle /\ MainIdle
    /\ SplitIdle

\* os.remove inside try/except-pass: the file is gone unless the removal
\* itself fails
os_remove(dir, file) ==
    IF fault.at = "remove" /\ fault.page = file.no THEN dir ELSE dir \ {file}

\* the clean-up loop over temp_images
RECURSIVE remove_all(_, _)
remove_all(dir, files) ==
    IF files = <<>> THEN dir
    ELSE remove_all(os_remove(dir, Head(files)), Tail(files))

\* the copy of the input is written and the pages are rendered; an exception
\* goes to the except branch, which reports it and returns None
RenderPages ==
    /\ raster_pc = "call"
    /\ temp_dir' = temp_dir \cup {TempPdf}
    /\ IF fault.at = "render"
       THEN /\ raster_out' = "None"
            /\ raster_pc' = "done"
            /\ UNCHANGED <<images, temp_images>>
       ELSE /\ images' = [i \in 1..input_pages |-> i]
            /\ temp_images' = <<>>
            /\ raster_pc' = "save"
            /\ UNCHANGED raster_out
    /\ UNCHANGED <<input_pages, fault>>
    /\ UNCHANGED <<parseVars, docVars, textVars, anVars, mainVars, splitVars>>

\* one pass of the loop over the images: the temporary file is created, the
\* image is saved into it, and its name is appended to temp_images
SaveImage ==
    /\ raster_pc = "save"
    /\ Len(temp_images) < Len(images)
    /\ LET i == Len(temp_images) + 1 IN
       /\ temp_dir' = temp_dir \cup {TempJpg(i)}
       /\ IF fault.at = "save" /\ fault.page = i
          THEN /\ raster_out' = "None"
               /\ raster_pc' = "done"
               /\ UNCHANGED temp_images
          ELSE /\ temp_images' = Append(temp_images, TempJpg(i))
               /\ UNCHANGED <<raster_out, raster_pc>>
    /\ UNCHANGED <<input_pages, fault, images>>
    /\ UNCHANGED <<parseVars, docVars, textVars, anVars, mainVars, splitVars>>

\* after the loop: img2pdf.convert, the clean-up and the return
AssemblePdf ==
    /\ raster_pc = "save"
    /\ Len(temp_images) = Len(images)
    /\ IF fault.at = "assemble"
       THEN /\ raster_out' = "None"
            /\ UNCHANGED temp_dir
       ELSE /\ raster_out' = "pdf_bytes"
            /\ temp_dir' = os_remove(remove_all(temp_dir, temp_images), TempPdf)
    /\ raster_pc' = "done"
    /\ UNCHANGED <<input_pages, fault, images, temp_images>>
    /\ UNCHANGED <<parseVars, docVars, textVars, anVars, mainVars, splitVars>>

NextRaster == RenderPages \/ SaveImage \/ AssemblePdf

SpecRaster == InitRaster /\ [][NextRaster]_vars

----------------------------------------------------------------------------
(* Claims about pdf_to_compressed_pdf, checked under SpecRaster. *)

\* C22: when a call of pdf_to_compressed_pdf has returned, with a PDF or
\* with None after a failure at any step, none of the temporary files it
\* created is left on disk.
C22_NoTempFileLeft ==
    raster_pc = "done" => temp_dir = {}

====
